---- MODULE Spec2Model ----
(***************************************************************************)
(* Model of the Europa ingestion job (europa_massive_downloader.py):       *)
(* main() partitions a requested volume into chunks, a process pool runs   *)
(* download_europa_chunk on each, and main() merges every completed chunk  *)
(* through save_datasets_batch into the datasets table.                    *)
(*                                                                         *)
(* Strings are sequences of one-character strings; the URL template is a   *)
(* single leading token.  The datasets table is the sequence of its rows   *)
(* in insertion order, so that a duplicate key is something the table      *)
(* could hold if an insert did not check for it.                           *)
(***************************************************************************)
EXTENDS Integers, Sequences, FiniteSets, TLC

VARIABLES
    store,          \* rows of the datasets table, in insertion order
    pc,             \* position of main()
    fatal,          \* which statement of main() raised out of main(), or "none"
    current_count,  \* main: current_count
    existing_urls,  \* main: existing_urls
    loaded,         \* whether get_existing_europa_urls read the table (no except)
    batch_size,     \* main: batch_size
    num_workers,    \* main: num_workers
    chunk_size,     \* main: chunk_size
    start_offset,   \* main: start_offset
    chunks,         \* main: chunks, as <<chunk_start, chunk_size>> pairs
    futures,        \* one entry per chunk: the work item and its future
    total_saved,    \* main: total_saved
    chunk_count,    \* main: chunk_count
    report,         \* the total printed at line 259, or NotPrinted
    last,           \* the latest save_datasets_batch call of the drain loop
    rows_added,     \* rows the job's batch writes have added to the table in this run
    external,       \* number of rows other writers have tried to insert
    run,            \* how many times main() has been started
    prev            \* the table as the previous run of main() left it

vars == <<store, pc, fatal, current_count, existing_urls, loaded, batch_size,
          num_workers, chunk_size, start_offset, chunks, futures, total_saved,
          chunk_count, report, last, rows_added, external, run, prev>>

-----------------------------------------------------------------------------
(* Bounds *)

MaxChunks == 2
MaxWorkers == 2
MaxPageLen == 2
MaxExternal == 1
MaxRuns == 2
MaxVolume == 7
MaxPage == 3
MaxResume == 3

(* Program constants *)

DefaultChunkSize == 5000
MinIdLen == 3

EUROPA == "data.europa.eu"
DATA_GOV == "data.gov"
UrlPrefix == <<"https://data.europa.eu/data/datasets/">>

NotPrinted == -1

-----------------------------------------------------------------------------
(* The remote catalog's entries and pages *)

RawEntries == { <<"a","b","c">>, <<"x","y","z">>, <<" ","a","b"," ">> }

RECURSIVE SeqsUpTo(_, _)
SeqsUpTo(S, n) ==
    IF n = 0 THEN { <<>> }
    ELSE LET shorter == SeqsUpTo(S, n - 1)
         IN  shorter \cup { Append(s, e) : s \in { t \in shorter : Len(t) = n - 1 }, e \in S }

Pages == SeqsUpTo(RawEntries, MaxPageLen)

-----------------------------------------------------------------------------
(* extract_europa_metadata_from_string *)

IsSpace(c) == c = " "

RECURSIVE lstrip(_)
lstrip(s) == IF s # <<>> /\ IsSpace(Head(s)) THEN lstrip(Tail(s)) ELSE s

RECURSIVE rstrip(_)
rstrip(s) ==
    IF s # <<>> /\ IsSpace(s[Len(s)]) THEN rstrip(SubSeq(s, 1, Len(s) - 1)) ELSE s

strip(s) == rstrip(lstrip(s))

EmptyDict == <<>>

Truthy(d) == DOMAIN d # {}

\* lines 97-126 without the check of lines 100-101
extract_without_length_check(dataset_str) ==
    LET dataset_id == strip(dataset_str)
    IN  [source_url |-> UrlPrefix \o dataset_id,
         source_platform |-> EUROPA,
         raw_id |-> dataset_id]

\* lines 97-126 with dataset_id = str(dataset_str), without .strip()
extract_without_strip(dataset_str) ==
    LET dataset_id == dataset_str
    IN  IF dataset_id = <<>> \/ Len(dataset_id) < MinIdLen
        THEN EmptyDict
        ELSE [source_url |-> UrlPrefix \o dataset_id,
              source_platform |-> EUROPA,
              raw_id |-> dataset_id]

extract_europa_metadata_from_string(dataset_str) ==
    LET dataset_id == strip(dataset_str)
    IN  IF dataset_id = <<>> \/ Len(dataset_id) < MinIdLen
        THEN EmptyDict
        ELSE [source_url |-> UrlPrefix \o dataset_id,
              source_platform |-> EUROPA,
              raw_id |-> dataset_id]

-----------------------------------------------------------------------------
(* The datasets table *)

\* a conflict check that looks at the first row only
HasUrlFirstRow(rows, u) == rows # <<>> /\ rows[1].source_url = u

HasUrl(rows, u) == \E k \in 1..Len(rows) : rows[k].source_url = u

UrlsOf(rows) == { rows[k].source_url : k \in 1..Len(rows) }

RowsWithUrl(rows, u) == { k \in 1..Len(rows) : rows[k].source_url = u }

\* a plain INSERT into a table without the unique index
InsertAlways(rows, r) == Append(rows, r)

\* an insert that replaces the row that holds the key: the old row is deleted
InsertOrReplace(rows, r) ==
    Append(SelectSeq(rows, LAMBDA x : x.source_url # r.source_url), r)

\* INSERT ... ON CONFLICT (source_url) DO NOTHING, one row
InsertOnConflictDoNothing(rows, r) ==
    IF HasUrl(rows, r.source_url) THEN rows ELSE Append(rows, r)

\* cursor.execute with the first tuple of the batch only
ExecuteFirstOnly(rows, batch_data) ==
    IF batch_data = <<>> THEN rows
    ELSE InsertOnConflictDoNothing(rows, Head(batch_data))

\* cursor.executemany(insert_query, batch_data)
RECURSIVE executemany(_, _)
executemany(rows, batch_data) ==
    IF batch_data = <<>> THEN rows
    ELSE executemany(InsertOnConflictDoNothing(rows, Head(batch_data)), Tail(batch_data))

\* SELECT COUNT(*) FROM datasets WHERE source_platform = 'data.europa.eu'
CountEuropa(rows) ==
    Cardinality({ k \in 1..Len(rows) : rows[k].source_platform = EUROPA })

\* SELECT source_url FROM datasets WHERE source_platform = 'data.europa.eu'
SelectEuropaUrls(rows) ==
    { rows[k].source_url : k \in { j \in 1..Len(rows) : rows[j].source_platform = EUROPA } }

\* a connection in autocommit mode keeps what was inserted before the failure
NoRollback(before, working) == working

\* the exit of "with self.get_connection() as conn" on an exception
Rollback(before, working) == before

(* save_datasets_batch(datasets).  failAt says where the database fails:   *)
(* 0 = get_connection, k in 1..Len = the k-th INSERT of executemany,       *)
(* Len+1 = nowhere.  The result is the table afterwards, the value         *)
(* returned and whether get_connection was called.                         *)

\* lines 46-90 without the early return of lines 43-44
save_without_empty_check(rows, datasets, failAt) ==
    IF failAt = 0 THEN [store |-> rows, ret |-> 0, connects |-> TRUE]
    ELSE IF failAt <= Len(datasets)
         THEN [store |-> Rollback(rows, executemany(rows, SubSeq(datasets, 1, failAt - 1))),
               ret |-> 0, connects |-> TRUE]
    ELSE [store |-> executemany(rows, datasets), ret |-> Len(datasets),
          connects |-> TRUE]

save_datasets_batch(rows, datasets, failAt) ==
    IF datasets = <<>> THEN [store |-> rows, ret |-> 0, connects |-> FALSE]
    ELSE IF failAt = 0 THEN [store |-> rows, ret |-> 0, connects |-> TRUE]
    ELSE IF failAt <= Len(datasets)
         THEN [store |-> Rollback(rows, executemany(rows, SubSeq(datasets, 1, failAt - 1))),
               ret |-> 0, connects |-> TRUE]
    ELSE [store |-> executemany(rows, datasets), ret |-> Len(datasets),
          connects |-> TRUE]

-----------------------------------------------------------------------------
(* download_europa_chunk *)

\* the loop of lines 164-170 without the check of lines 168-169
RECURSIVE CollectDatasetsNoSkip(_, _)
CollectDatasetsNoSkip(data, known) ==
    IF data = <<>> THEN <<>>
    ELSE LET metadata == extract_europa_metadata_from_string(Head(data))
             rest == CollectDatasetsNoSkip(Tail(data), known)
         IN  IF Truthy(metadata) /\ metadata.source_url # <<>>
             THEN <<metadata>> \o rest
             ELSE rest

\* the loop of lines 164-170 with "break" in place of "continue" at line 169
RECURSIVE CollectDatasetsBreak(_, _)
CollectDatasetsBreak(data, known) ==
    IF data = <<>> THEN <<>>
    ELSE LET metadata == extract_europa_metadata_from_string(Head(data))
             rest == CollectDatasetsBreak(Tail(data), known)
         IN  IF Truthy(metadata) /\ metadata.source_url # <<>>
             THEN IF metadata.source_url \in known THEN <<>>
                  ELSE <<metadata>> \o rest
             ELSE rest

\* lines 161-172: normalise every entry of the page, skip the known ones
RECURSIVE CollectDatasets(_, _)
CollectDatasets(data, known) ==
    IF data = <<>> THEN <<>>
    ELSE LET metadata == extract_europa_metadata_from_string(Head(data))
             rest == CollectDatasets(Tail(data), known)
         IN  IF Truthy(metadata) /\ metadata.source_url # <<>>
             THEN IF metadata.source_url \in known THEN rest
                  ELSE <<metadata>> \o rest
             ELSE rest

FetchOutcomes == { "ok", "http", "format", "exc" }

\* the value download_europa_chunk returns
download_europa_chunk(outcome, data, known) ==
    IF outcome = "ok" THEN CollectDatasets(data, known) ELSE <<>>

-----------------------------------------------------------------------------
(* main(): partitioning *)

num_chunks_of(V, P) == V \div P

\* chunk starts computed without start_offset
PartitionFromZero(R, V, P) ==
    [i \in 1..num_chunks_of(V, P) |-> <<(i - 1) * P, P>>]

\* lines 214-218: chunk i (counted from 1) starts at R + (i-1)*P
Partition(R, V, P) ==
    [i \in 1..num_chunks_of(V, P) |-> <<R + ((i - 1) * P), P>>]

-----------------------------------------------------------------------------
(* Inputs *)

EuropaRow(id) == extract_europa_metadata_from_string(id)

\* the table before any writer has run
InitStores == { <<>> }

(* Rows another writer of the table may insert, before or during the job:  *)
(* update_database.py inserts Europa records and data.gov records.         *)
ExternalRows ==
    { [source_url |-> UrlPrefix \o <<"a","b","c">>, source_platform |-> EUROPA,
       raw_id |-> <<"a","b","c">>],
      [source_url |-> <<"https://catalog.data.gov/dataset/", "g">>,
       source_platform |-> DATA_GOV, raw_id |-> <<"g">>] }

BatchSizes == { k * chunk_size : k \in 0..MaxChunks }

NoFuture ==
    [st |-> "pending", snap |-> {}, peers |-> {}, outcome |-> "none",
     data |-> <<>>, result |-> <<>>, branch |-> "none", ret |-> 0,
     write |-> "none"]

NoCall ==
    [chunk |-> 0, datasets |-> <<>>, failAt |-> 0, before |-> <<>>,
     after |-> <<>>, ret |-> 0, connects |-> FALSE]

NoPrev == [store |-> <<>>]

Running == { i \in 1..Len(futures) : futures[i].st = "running" }

\* a loop that stops at the first handled future
SomeHandled == \E i \in 1..Len(futures) : futures[i].st = "handled"

\* as_completed is exhausted: every submitted future has been yielded and handled
AllHandled == \A i \in 1..Len(futures) : futures[i].st = "handled"

-----------------------------------------------------------------------------
(* Initial state: main() is about to run *)

Init ==
    /\ store \in InitStores
    /\ pc = "count"
    /\ fatal = "none"
    /\ current_count = 0
    /\ existing_urls = {}
    /\ loaded = FALSE
    /\ batch_size = 0
    /\ num_workers = 0
    /\ chunk_size = DefaultChunkSize
    /\ start_offset = 0
    /\ chunks = <<>>
    /\ futures = <<>>
    /\ total_saved = 0
    /\ chunk_count = 0
    /\ report = NotPrinted
    /\ last = NoCall
    /\ rows_added = 0
    /\ external = 0
    /\ run = 1
    /\ prev = NoPrev

-----------------------------------------------------------------------------
(* main() *)

\* lines 185-188
CountQuery ==
    /\ pc = "count"
    /\ current_count' = CountEuropa(store)
    /\ pc' = "load"
    /\ UNCHANGED <<store, fatal, existing_urls, loaded, batch_size, num_workers,
                   chunk_size, start_offset, chunks, futures, total_saved,
                   chunk_count, report, last, rows_added, external, run, prev>>

\* lines 185-188 when the connection or the query raises: nothing catches it
CountQueryFails ==
    /\ pc = "count"
    /\ pc' = "fatal"
    /\ fatal' = "count"
    /\ UNCHANGED <<store, current_count, existing_urls, loaded, batch_size,
                   num_workers, chunk_size, start_offset, chunks, futures,
                   total_saved, chunk_count, report, last, rows_added, external, run, prev>>

\* line 193, get_existing_europa_urls lines 32-36
LoadUrls ==
    /\ pc = "load"
    /\ existing_urls' = SelectEuropaUrls(store)
    /\ loaded' = TRUE
    /\ pc' = "input"
    /\ UNCHANGED <<store, fatal, current_count, batch_size, num_workers,
                   chunk_size, start_offset, chunks, futures, total_saved,
                   chunk_count, report, last, rows_added, external, run, prev>>

\* line 193, get_existing_europa_urls lines 37-39: the except branch
LoadUrlsFails ==
    /\ pc = "load"
    /\ existing_urls' = {}
    /\ loaded' = FALSE
    /\ pc' = "input"
    /\ UNCHANGED <<store, fatal, current_count, batch_size, num_workers,
                   chunk_size, start_offset, chunks, futures, total_saved,
                   chunk_count, report, last, rows_added, external, run, prev>>

(* lines 197-202.  The volume is a whole number of chunks here (any volume  *)
(* is partitioned in SpecPartition) and the pool size is at least 1: the   *)
(* executor's constructor rejects a smaller one.                           *)
ReadInput ==
    /\ pc = "input"
    /\ \E bs \in BatchSizes, nw \in 1..MaxWorkers :
          /\ batch_size' = bs
          /\ num_workers' = nw
    /\ pc' = "partition"
    /\ UNCHANGED <<store, fatal, current_count, existing_urls, loaded,
                   chunk_size, start_offset, chunks, futures, total_saved,
                   chunk_count, report, last, rows_added, external, run, prev>>

\* lines 205-218
CreateChunks ==
    /\ pc = "partition"
    /\ start_offset' = current_count
    /\ chunks' = Partition(current_count, batch_size, chunk_size)
    /\ pc' = "submit"
    /\ UNCHANGED <<store, fatal, current_count, existing_urls, loaded,
                   batch_size, num_workers, chunk_size, futures, total_saved,
                   chunk_count, report, last, rows_added, external, run, prev>>

\* a submit that hands only the first chunk to the executor before the loop starts
SubmitFirstOnly ==
    /\ pc = "submit"
    /\ futures' = [i \in 1..(IF Len(chunks) > 0 THEN 1 ELSE 0) |-> NoFuture]
    /\ total_saved' = 0
    /\ chunk_count' = 0
    /\ pc' = "drain"
    /\ UNCHANGED <<store, fatal, current_count, existing_urls, loaded,
                   batch_size, num_workers, chunk_size, start_offset, chunks,
                   report, last, rows_added, external, run, prev>>

\* lines 221-229
SubmitAll ==
    /\ pc = "submit"
    /\ futures' = [i \in 1..Len(chunks) |-> NoFuture]
    /\ total_saved' = 0
    /\ chunk_count' = 0
    /\ pc' = "drain"
    /\ UNCHANGED <<store, fatal, current_count, existing_urls, loaded,
                   batch_size, num_workers, chunk_size, start_offset, chunks,
                   report, last, rows_added, external, run, prev>>

-----------------------------------------------------------------------------
(* The process pool *)

(* The executor pickles a work item, and with it the third element of the  *)
(* chunk tuple, when it moves the item to the call queue: the worker gets  *)
(* existing_urls as it is at that moment.                                  *)
Pickle(i) ==
    /\ pc = "drain"
    /\ i \in 1..Len(futures)
    /\ futures[i].st = "pending"
    /\ futures' = [futures EXCEPT ![i].st = "queued", ![i].snap = existing_urls]
    /\ UNCHANGED <<store, pc, fatal, current_count, existing_urls, loaded,
                   batch_size, num_workers, chunk_size, start_offset, chunks,
                   total_saved, chunk_count, report, last, rows_added, external, run, prev>>

\* a pool that starts a process for every call, whatever max_workers says
StartFetchUnbounded(i) ==
    /\ pc = "drain"
    /\ i \in 1..Len(futures)
    /\ futures[i].st = "queued"
    /\ futures' = [futures EXCEPT ![i].st = "running", ![i].peers = Running]
    /\ UNCHANGED <<store, pc, fatal, current_count, existing_urls, loaded,
                   batch_size, num_workers, chunk_size, start_offset, chunks,
                   total_saved, chunk_count, report, last, rows_added, external, run, prev>>

\* a free worker process takes the next call (max_workers=num_workers, line 224)
StartFetch(i) ==
    /\ pc = "drain"
    /\ i \in 1..Len(futures)
    /\ futures[i].st = "queued"
    /\ Cardinality(Running) < num_workers
    /\ futures' = [futures EXCEPT ![i].st = "running", ![i].peers = Running]
    /\ UNCHANGED <<store, pc, fatal, current_count, existing_urls, loaded,
                   batch_size, num_workers, chunk_size, start_offset, chunks,
                   total_saved, chunk_count, report, last, rows_added, external, run, prev>>

(* download_europa_chunk, lines 131-176.  The remote answers with a page   *)
(* (outcome "ok"), with a status other than 200 ("http"), with JSON that   *)
(* is not a list ("format"), or the request raises or times out ("exc").   *)
(* workers that are threads of main()'s process and put what they keep    *)
(* into the set they were given                                            *)
FetchAddingToKeySet(i, pages) ==
    /\ pc = "drain"
    /\ i \in 1..Len(futures)
    /\ futures[i].st = "running"
    /\ \E outcome \in FetchOutcomes :
       \E data \in (IF outcome = "ok" THEN pages ELSE { <<>> }) :
          LET datasets == download_europa_chunk(outcome, data, existing_urls)
          IN  /\ futures' = [futures EXCEPT
                    ![i].st = "finished",
                    ![i].outcome = outcome,
                    ![i].data = data,
                    ![i].result = datasets]
              /\ existing_urls' = existing_urls \cup UrlsOf(datasets)
    /\ UNCHANGED <<store, pc, fatal, current_count, loaded,
                   batch_size, num_workers, chunk_size, start_offset, chunks,
                   total_saved, chunk_count, report, last, rows_added, external, run, prev>>

(* pages: what the remote may answer with when it answers with a page.     *)
Fetch(i, pages) ==
    /\ pc = "drain"
    /\ i \in 1..Len(futures)
    /\ futures[i].st = "running"
    /\ \E outcome \in FetchOutcomes :
       \E data \in (IF outcome = "ok" THEN pages ELSE { <<>> }) :
          /\ futures' = [futures EXCEPT
                ![i].st = "finished",
                ![i].outcome = outcome,
                ![i].data = data,
                ![i].result = download_europa_chunk(outcome, data, futures[i].snap)]
    /\ UNCHANGED <<store, pc, fatal, current_count, existing_urls, loaded,
                   batch_size, num_workers, chunk_size, start_offset, chunks,
                   total_saved, chunk_count, report, last, rows_added, external, run, prev>>

\* the remote answers with any page
FinishFetch(i) == Fetch(i, Pages)

\* an executor that puts the call of a dead worker back into the call queue
WorkerDiesRequeues(i) ==
    /\ pc = "drain"
    /\ i \in 1..Len(futures)
    /\ futures[i].st = "running"
    /\ futures' = [futures EXCEPT ![i].st = "queued"]
    /\ UNCHANGED <<store, pc, fatal, current_count, existing_urls, loaded,
                   batch_size, num_workers, chunk_size, start_offset, chunks,
                   total_saved, chunk_count, report, last, rows_added, external, run, prev>>

(* A worker process dies while running a call: the executor marks the pool *)
(* broken and sets BrokenProcessPool on every future that has no result.   *)
WorkerDies(i) ==
    /\ pc = "drain"
    /\ i \in 1..Len(futures)
    /\ futures[i].st = "running"
    /\ futures' = [j \in 1..Len(futures) |->
                     IF futures[j].st \in { "pending", "queued", "running" }
                     THEN [futures[j] EXCEPT !.st = "finished", !.outcome = "broken"]
                     ELSE futures[j]]
    /\ UNCHANGED <<store, pc, fatal, current_count, existing_urls, loaded,
                   batch_size, num_workers, chunk_size, start_offset, chunks,
                   total_saved, chunk_count, report, last, rows_added, external, run, prev>>

-----------------------------------------------------------------------------
(* main(): the drain loop, one iteration of lines 232-256 *)

\* lines 243-244
AddUrls(known, datasets) ==
    known \cup { datasets[k].source_url : k \in 1..Len(datasets) }

\* a fetcher without the try of lines 138 and 174-176: an exception of the
\* request is set on the future
RaisesOnRequestError(f) == f.outcome \in { "broken", "exc" }

(* line 235: future.result() raises what the future holds.  The fetcher    *)
(* returns [] from its own except branch (lines 174-176), so a future      *)
(* holds an exception only when the pool broke.                            *)
FutureRaises(f) == f.outcome = "broken"

\* line 235 raises: lines 252-253
DrainException(i) ==
    /\ pc = "drain"
    /\ i \in 1..Len(futures)
    /\ futures[i].st = "finished"
    /\ FutureRaises(futures[i])
    /\ futures' = [futures EXCEPT ![i].st = "handled", ![i].branch = "exception"]
    /\ UNCHANGED <<store, pc, fatal, current_count, existing_urls, loaded,
                   batch_size, num_workers, chunk_size, start_offset, chunks,
                   total_saved, chunk_count, report, last, rows_added, external, run, prev>>

\* lines 235-236 and 249-250: the result is empty
DrainEmpty(i) ==
    /\ pc = "drain"
    /\ i \in 1..Len(futures)
    /\ futures[i].st = "finished"
    /\ ~FutureRaises(futures[i])
    /\ futures[i].result = <<>>
    /\ futures' = [futures EXCEPT ![i].st = "handled", ![i].branch = "empty"]
    /\ UNCHANGED <<store, pc, fatal, current_count, existing_urls, loaded,
                   batch_size, num_workers, chunk_size, start_offset, chunks,
                   total_saved, chunk_count, report, last, rows_added, external, run, prev>>

\* the results of the futures k..Len(futures) that have returned and are not
\* handled yet, one after the other
RECURSIVE FinishedResults(_)
FinishedResults(k) ==
    IF k > Len(futures) THEN <<>>
    ELSE (IF futures[k].st = "finished" /\ ~FutureRaises(futures[k])
          THEN futures[k].result ELSE <<>>) \o FinishedResults(k + 1)

\* a drain loop that writes, in the transaction of chunk i, the records of
\* every future that has returned
DrainSaveAllFinished(i) ==
    /\ pc = "drain"
    /\ i \in 1..Len(futures)
    /\ futures[i].st = "finished"
    /\ ~FutureRaises(futures[i])
    /\ futures[i].result # <<>>
    /\ \E failAt \in 0..(Len(FinishedResults(1)) + 1) :
          LET datasets == FinishedResults(1)
              call == save_datasets_batch(store, datasets, failAt)
              saved == call.ret
          IN  /\ store' = call.store
              /\ total_saved' = total_saved + saved
              /\ chunk_count' = chunk_count + 1
              /\ existing_urls' = AddUrls(existing_urls, datasets)
              /\ futures' = [futures EXCEPT
                    ![i].st = "handled",
                    ![i].branch = "saved",
                    ![i].ret = saved,
                    ![i].write = IF failAt <= Len(datasets) THEN "failed" ELSE "committed"]
              /\ last' = [chunk |-> i, datasets |-> datasets, failAt |-> failAt,
                          before |-> store, after |-> call.store, ret |-> saved,
                          connects |-> call.connects]
              /\ rows_added' = rows_added + (Len(call.store) - Len(store))
    /\ UNCHANGED <<pc, fatal, current_count, loaded, batch_size, num_workers,
                   chunk_size, start_offset, chunks, report, external, run, prev>>

\* lines 235-248: the result is not empty
DrainSave(i) ==
    /\ pc = "drain"
    /\ i \in 1..Len(futures)
    /\ futures[i].st = "finished"
    /\ ~FutureRaises(futures[i])
    /\ futures[i].result # <<>>
    /\ \E failAt \in 0..(Len(futures[i].result) + 1) :
          LET datasets == futures[i].result
              call == save_datasets_batch(store, datasets, failAt)
              saved == call.ret
          IN  /\ store' = call.store
              /\ total_saved' = total_saved + saved
              /\ chunk_count' = chunk_count + 1
              /\ existing_urls' = AddUrls(existing_urls, datasets)
              /\ futures' = [futures EXCEPT
                    ![i].st = "handled",
                    ![i].branch = "saved",
                    ![i].ret = saved,
                    ![i].write = IF failAt <= Len(datasets) THEN "failed" ELSE "committed"]
              /\ last' = [chunk |-> i, datasets |-> datasets, failAt |-> failAt,
                          before |-> store, after |-> call.store, ret |-> saved,
                          connects |-> call.connects]
              /\ rows_added' = rows_added + (Len(call.store) - Len(store))
    /\ UNCHANGED <<pc, fatal, current_count, loaded, batch_size, num_workers,
                   chunk_size, start_offset, chunks, report, external, run, prev>>

\* lines 258-259, after the loop and the executor's shutdown
PrintTotal ==
    /\ pc = "drain"
    /\ AllHandled
    /\ report' = total_saved
    /\ pc' = "stats"
    /\ UNCHANGED <<store, fatal, current_count, existing_urls, loaded,
                   batch_size, num_workers, chunk_size, start_offset, chunks,
                   futures, total_saved, chunk_count, last, rows_added, external, run, prev>>

\* lines 262-272
FinalStats ==
    /\ pc = "stats"
    /\ pc' = "done"
    /\ UNCHANGED <<store, fatal, current_count, existing_urls, loaded,
                   batch_size, num_workers, chunk_size, start_offset, chunks,
                   futures, total_saved, chunk_count, report, last, rows_added, external,
                   run, prev>>

\* lines 262-268 when the connection or a query raises: nothing catches it
FinalStatsFails ==
    /\ pc = "stats"
    /\ pc' = "fatal"
    /\ fatal' = "stats"
    /\ UNCHANGED <<store, current_count, existing_urls, loaded, batch_size,
                   num_workers, chunk_size, start_offset, chunks, futures,
                   total_saved, chunk_count, report, last, rows_added, external, run, prev>>

-----------------------------------------------------------------------------
(* Another writer of the same table *)

(* update_database.insert_datasets, one row.  The table has a unique index *)
(* on source_url (ON CONFLICT (source_url) needs one), so an insert of a   *)
(* key that is present adds no row.                                        *)
ExternalWrite ==
    /\ external < MaxExternal
    /\ \E r \in ExternalRows :
          store' = InsertOnConflictDoNothing(store, r)
    /\ external' = external + 1
    /\ UNCHANGED <<pc, fatal, current_count, existing_urls, loaded, batch_size,
                   num_workers, chunk_size, start_offset, chunks, futures,
                   total_saved, chunk_count, report, last, rows_added, run, prev>>

-----------------------------------------------------------------------------

Next ==
    \/ CountQuery
    \/ CountQueryFails
    \/ LoadUrls
    \/ LoadUrlsFails
    \/ ReadInput
    \/ CreateChunks
    \/ SubmitAll
    \/ \E i \in 1..MaxChunks : Pickle(i)
    \/ \E i \in 1..MaxChunks : StartFetch(i)
    \/ \E i \in 1..MaxChunks : FinishFetch(i)
    \/ \E i \in 1..MaxChunks : WorkerDies(i)
    \/ \E i \in 1..MaxChunks : DrainException(i)
    \/ \E i \in 1..MaxChunks : DrainEmpty(i)
    \/ \E i \in 1..MaxChunks : DrainSave(i)
    \/ PrintTotal
    \/ FinalStats
    \/ FinalStatsFails
    \/ ExternalWrite

Spec == Init /\ [][Next]_vars

(* main() is started again after it has ended, against the table as it is; *)
(* p is what is remembered of the run that ended                           *)
RerunWith(p) ==
    /\ pc \in { "done", "fatal" }
    /\ run < MaxRuns
    /\ run' = run + 1
    /\ prev' = p
    /\ pc' = "count"
    /\ fatal' = "none"
    /\ current_count' = 0
    /\ existing_urls' = {}
    /\ loaded' = FALSE
    /\ batch_size' = 0
    /\ num_workers' = 0
    /\ start_offset' = 0
    /\ chunks' = <<>>
    /\ futures' = <<>>
    /\ total_saved' = 0
    /\ chunk_count' = 0
    /\ report' = NotPrinted
    /\ last' = NoCall
    /\ rows_added' = 0
    /\ UNCHANGED <<store, chunk_size, external>>

Rerun == RerunWith([store |-> store])

\* the job on its own table: no other writer
JobStep ==
    \/ CountQuery
    \/ CountQueryFails
    \/ LoadUrls
    \/ LoadUrlsFails
    \/ ReadInput
    \/ CreateChunks
    \/ SubmitAll
    \/ \E i \in 1..MaxChunks : Pickle(i)
    \/ \E i \in 1..MaxChunks : StartFetch(i)
    \/ \E i \in 1..MaxChunks : FinishFetch(i)
    \/ \E i \in 1..MaxChunks : WorkerDies(i)
    \/ \E i \in 1..MaxChunks : DrainException(i)
    \/ \E i \in 1..MaxChunks : DrainEmpty(i)
    \/ \E i \in 1..MaxChunks : DrainSave(i)
    \/ PrintTotal
    \/ FinalStats
    \/ FinalStatsFails

NextRerun == JobStep \/ Rerun

SpecRerun == Init /\ [][NextRerun]_vars

(* main() keeps running, the executor keeps feeding its workers and every  *)
(* worker returns or dies; nothing is assumed about the database or about  *)
(* other writers.                                                          *)
MainStep ==
    \/ CountQuery
    \/ LoadUrls
    \/ ReadInput
    \/ CreateChunks
    \/ SubmitAll
    \/ \E i \in 1..MaxChunks : DrainException(i) \/ DrainEmpty(i) \/ DrainSave(i)
    \/ PrintTotal
    \/ FinalStats

PoolStep ==
    \E i \in 1..MaxChunks :
        Pickle(i) \/ StartFetch(i) \/ FinishFetch(i) \/ WorkerDies(i)

Fairness == WF_vars(MainStep) /\ WF_vars(PoolStep)

SpecLive == Spec /\ Fairness

-----------------------------------------------------------------------------
(* The partitioner on its own: any volume, page size and resume offset *)

InitPartition ==
    /\ store = <<>>
    /\ pc = "partition"
    /\ fatal = "none"
    /\ current_count \in 0..MaxResume
    /\ existing_urls = {}
    /\ loaded = TRUE
    /\ batch_size \in 0..MaxVolume
    /\ num_workers = 1
    /\ chunk_size \in 1..MaxPage
    /\ start_offset = 0
    /\ chunks = <<>>
    /\ futures = <<>>
    /\ total_saved = 0
    /\ chunk_count = 0
    /\ report = NotPrinted
    /\ last = NoCall
    /\ rows_added = 0
    /\ external = 0
    /\ run = 1
    /\ prev = NoPrev

NextPartition == CreateChunks

SpecPartition == InitPartition /\ [][NextPartition]_vars

-----------------------------------------------------------------------------
(* save_datasets_batch on its own: any table, any batch, any failure *)

\* the rows a table or a batch is made of here
WriterRows ==
    ExternalRows \cup { EuropaRow(e) : e \in { r \in RawEntries : Len(strip(r)) >= MinIdLen } }

\* tables the unique index allows
WriterStores ==
    { rows \in SeqsUpTo(WriterRows, MaxPageLen) :
        \A k, m \in 1..Len(rows) : k # m => rows[k].source_url # rows[m].source_url }

\* lists of dicts a caller may pass, the empty list among them
WriterBatches == SeqsUpTo(WriterRows, MaxPageLen)

InitWriter ==
    /\ store \in WriterStores
    /\ pc = "call"
    /\ fatal = "none"
    /\ current_count = 0
    /\ existing_urls = {}
    /\ loaded = FALSE
    /\ batch_size = 0
    /\ num_workers = 0
    /\ chunk_size = DefaultChunkSize
    /\ start_offset = 0
    /\ chunks = <<>>
    /\ futures = <<>>
    /\ total_saved = 0
    /\ chunk_count = 0
    /\ report = NotPrinted
    /\ last = NoCall
    /\ rows_added = 0
    /\ external = 0
    /\ run = 1
    /\ prev = NoPrev

\* one call of downloader.save_datasets_batch(datasets)
CallSave ==
    /\ pc = "call"
    /\ \E datasets \in WriterBatches :
       \E failAt \in 0..(Len(datasets) + 1) :
          LET call == save_datasets_batch(store, datasets, failAt)
          IN  /\ store' = call.store
              /\ last' = [chunk |-> 0, datasets |-> datasets, failAt |-> failAt,
                          before |-> store, after |-> call.store, ret |-> call.ret,
                          connects |-> call.connects]
              /\ rows_added' = Len(call.store) - Len(store)
    /\ pc' = "called"
    /\ UNCHANGED <<fatal, current_count, existing_urls, loaded, batch_size,
                   num_workers, chunk_size, start_offset, chunks, futures,
                   total_saved, chunk_count, report, external, run, prev>>

NextWriter == CallSave

SpecWriter == InitWriter /\ [][NextWriter]_vars

-----------------------------------------------------------------------------
(* extract_europa_metadata_from_string on its own: the loop of lines       *)
(* 164-165 calls it on every entry of a page                               *)

\* raw entries with and without surrounding blanks, too short ones and the
\* empty string among them
NormalizerInputs ==
    { <<"a","b","c">>, <<" ","a","b","c">>, <<"a","b","c"," ">>, <<"a","b","d">>,
      <<"a"," ","b","c">>, <<" ","a","b"," ">>, <<" "," "," ">>, <<>> }

NormalizerPages == SeqsUpTo(NormalizerInputs, MaxPageLen)

InitNormalizer ==
    /\ store \in InitStores
    /\ pc = "normalize"
    /\ fatal = "none"
    /\ current_count = 0
    /\ existing_urls = {}
    /\ loaded = FALSE
    /\ batch_size = 0
    /\ num_workers = 0
    /\ chunk_size = DefaultChunkSize
    /\ start_offset = 0
    /\ chunks = <<>>
    /\ \E data \in NormalizerPages :
          futures = <<[NoFuture EXCEPT !.data = data]>>
    /\ total_saved = 0
    /\ chunk_count = 0
    /\ report = NotPrinted
    /\ last = NoCall
    /\ rows_added = 0
    /\ external = 0
    /\ run = 1
    /\ prev = NoPrev

\* metadata = downloader.extract_europa_metadata_from_string(dataset_str),
\* for every dataset_str of the page; the k-th value is kept as result[k]
NormalizeAll ==
    /\ pc = "normalize"
    /\ futures' = [futures EXCEPT
          ![1].result = [k \in 1..Len(futures[1].data) |->
                            extract_europa_metadata_from_string(futures[1].data[k])],
          ![1].st = "finished"]
    /\ pc' = "normalized"
    /\ UNCHANGED <<store, fatal, current_count, existing_urls, loaded, batch_size,
                   num_workers, chunk_size, start_offset, chunks, total_saved,
                   chunk_count, report, last, rows_added, external, run, prev>>

NextNormalizer == NormalizeAll

SpecNormalizer == InitNormalizer /\ [][NextNormalizer]_vars

-----------------------------------------------------------------------------
(* update_database.insert_datasets on its own: any table, any batch, an    *)
(* INSERT that raises at any place                                         *)

(* What makes cur.execute raise.  "client": the exception is raised before *)
(* the statement reaches the server (a missing key of the dict, a value    *)
(* psycopg2 cannot adapt), the transaction goes on.  "server": PostgreSQL  *)
(* rejects the statement and aborts the transaction; every later statement *)
(* of it raises InFailedSqlTransaction and COMMIT ends it as a rollback.   *)
ErrorKinds == { "client", "server" }

\* the state of the loop before any dataset: lines 84-85
InsertStart(rows) ==
    [working |-> rows, inserted |-> 0, duplicates |-> 0, errors |-> 0,
     aborted |-> FALSE]

(* Lines 87-108 for the datasets k..Len(datasets), from loop state acc.    *)
(* errors counts the runs of the except branch of lines 107-108, which the *)
(* code prints and does not count.                                         *)
RECURSIVE InsertLoop(_, _, _, _, _)
InsertLoop(acc, datasets, k, failAt, kind) ==
    IF k > Len(datasets) THEN acc
    ELSE LET r == datasets[k]
             after ==
                 IF acc.aborted
                 THEN [acc EXCEPT !.errors = @ + 1]
                 ELSE IF k = failAt
                 THEN [acc EXCEPT !.errors = @ + 1, !.aborted = (kind = "server")]
                 ELSE IF HasUrl(acc.working, r.source_url)
                 THEN [acc EXCEPT !.duplicates = @ + 1]
                 ELSE [acc EXCEPT !.working = InsertOnConflictDoNothing(@, r),
                                  !.inserted = @ + 1]
         IN  InsertLoop(after, datasets, k + 1, failAt, kind)

(* insert_datasets(datasets), lines 82-115: the loop, conn.commit() of     *)
(* line 110 and the value returned at line 115.  failAt = Len + 1 means    *)
(* that no INSERT raises.                                                  *)
insert_datasets(rows, datasets, failAt, kind) ==
    LET end == InsertLoop(InsertStart(rows), datasets, 1, failAt, kind)
    IN  [store |-> IF end.aborted THEN Rollback(rows, end.working) ELSE end.working,
         ret |-> end.inserted,
         duplicates |-> end.duplicates,
         errors |-> end.errors]

InitInsert ==
    /\ store \in WriterStores
    /\ pc = "call"
    /\ fatal = "none"
    /\ current_count = 0
    /\ existing_urls = {}
    /\ loaded = FALSE
    /\ batch_size = 0
    /\ num_workers = 0
    /\ chunk_size = DefaultChunkSize
    /\ start_offset = 0
    /\ chunks = <<>>
    /\ futures = <<>>
    /\ total_saved = 0
    /\ chunk_count = 0
    /\ report = NotPrinted
    /\ last = NoCall
    /\ rows_added = 0
    /\ external = 0
    /\ run = 1
    /\ prev = NoPrev

\* one call of insert_datasets(all_datasets): update_database.main, lines 162-163
CallInsert ==
    /\ pc = "call"
    /\ \E datasets \in WriterBatches \ { <<>> } :
       \E failAt \in 1..(Len(datasets) + 1) :
       \E kind \in ErrorKinds :
          LET call == insert_datasets(store, datasets, failAt, kind)
          IN  /\ store' = call.store
              /\ last' = [chunk |-> 0, datasets |-> datasets, failAt |-> failAt,
                          before |-> store, after |-> call.store, ret |-> call.ret,
                          connects |-> TRUE, kind |-> kind,
                          duplicates |-> call.duplicates, errors |-> call.errors]
              /\ rows_added' = Len(call.store) - Len(store)
    /\ pc' = "called"
    /\ UNCHANGED <<fatal, current_count, existing_urls, loaded, batch_size,
                   num_workers, chunk_size, start_offset, chunks, futures,
                   total_saved, chunk_count, report, external, run, prev>>

NextInsert == CallInsert

SpecInsert == InitInsert /\ [][NextInsert]_vars

-----------------------------------------------------------------------------
(* The job against a remote catalog that lists one identifier per offset *)

\* the identifier the catalog lists at offset k
CatalogEntry(k) == <<"i", "d", ToString(k)>>

\* the page the catalog returns for params limit = c[2], offset = c[1] (line 142)
CatalogPage(c) == [n \in 1..c[2] |-> CatalogEntry(c[1] + n - 1)]

\* the first n records of the catalog, as rows of the table
CatalogRows(n) == [k \in 1..n |-> EuropaRow(CatalogEntry(k - 1))]

\* a scaled-down job: volume, page size and the count the job resumes from
ExampleJob == [volume |-> 10, page |-> 5, resume |-> 100]

InitExample ==
    /\ store = CatalogRows(ExampleJob.resume)
    /\ pc = "count"
    /\ fatal = "none"
    /\ current_count = 0
    /\ existing_urls = {}
    /\ loaded = FALSE
    /\ batch_size = 0
    /\ num_workers = 0
    /\ chunk_size = ExampleJob.page
    /\ start_offset = 0
    /\ chunks = <<>>
    /\ futures = <<>>
    /\ total_saved = 0
    /\ chunk_count = 0
    /\ report = NotPrinted
    /\ last = NoCall
    /\ rows_added = 0
    /\ external = 0
    /\ run = 1
    /\ prev = NoPrev

\* the remote answers chunk i's request with the catalog's page for its range
FetchCatalogPage(i) ==
    /\ i \in 1..Len(chunks)
    /\ Fetch(i, { CatalogPage(chunks[i]) })

NextExample ==
    \/ CountQuery
    \/ CountQueryFails
    \/ LoadUrls
    \/ LoadUrlsFails
    \/ ReadInput
    \/ CreateChunks
    \/ SubmitAll
    \/ \E i \in 1..MaxChunks : Pickle(i)
    \/ \E i \in 1..MaxChunks : StartFetch(i)
    \/ \E i \in 1..MaxChunks : FetchCatalogPage(i)
    \/ \E i \in 1..MaxChunks : WorkerDies(i)
    \/ \E i \in 1..MaxChunks : DrainException(i)
    \/ \E i \in 1..MaxChunks : DrainEmpty(i)
    \/ \E i \in 1..MaxChunks : DrainSave(i)
    \/ PrintTotal
    \/ FinalStats
    \/ FinalStatsFails

SpecExample == InitExample /\ [][NextExample]_vars

(* The same job started again: the operator answers the prompts of lines   *)
(* 198-199 as before; the offset is whatever the new count gives.          *)
Retry ==
    RerunWith([store |-> store,
               start_offset |-> start_offset,
               batch_size |-> batch_size,
               write_failed |-> \E i \in 1..Len(futures) : futures[i].write = "failed"])

NextRetry == NextExample \/ Retry

SpecRetry == InitExample /\ [][NextRetry]_vars

-----------------------------------------------------------------------------
(* Claims *)

ChunkRange(c) == c[1]..(c[1] + c[2] - 1)

RequestedRange == start_offset..(start_offset + batch_size - 1)

ChunksDisjoint ==
    \A i, j \in 1..Len(chunks) :
        i # j => ChunkRange(chunks[i]) \cap ChunkRange(chunks[j]) = {}

ChunksUnion == UNION { ChunkRange(chunks[i]) : i \in 1..Len(chunks) }

(* C1: for any total volume V >= 0, page size P >= 1 and resume offset R,  *)
(* the ranges [startOffset, startOffset+P) of the chunks the partitioner   *)
(* creates are pairwise disjoint and their union is exactly [R, R+V).      *)
C1_PartitionCoversRange ==
    pc = "submit" => ChunksDisjoint /\ ChunksUnion = RequestedRange

-----------------------------------------------------------------------------
(* What a chunk brought *)

RECURSIVE NormalizedUrls(_)
NormalizedUrls(data) ==
    IF data = <<>> THEN {}
    ELSE LET metadata == extract_europa_metadata_from_string(Head(data))
         IN  (IF Truthy(metadata) THEN { metadata.source_url } ELSE {})
                \cup NormalizedUrls(Tail(data))

\* the sourceURLs of the records in the page chunk i fetched
PageUrls(i) == NormalizedUrls(futures[i].data)

\* the sourceURLs of the records worker i returned
ResultUrls(i) == UrlsOf(futures[i].result)

Handled(i) == futures[i].st = "handled"

\* the remote answered chunk i's request with a page
FetchedPage(i) == futures[i].outcome = "ok"

ReportPrinted == report # NotPrinted

\* chunk i's batch held u and its transaction committed
Wrote(i, u) == futures[i].write = "committed" /\ u \in ResultUrls(i)

\* chunks i and j were being fetched at the same time
Concurrent(i, j) == i \in futures[j].peers \/ j \in futures[i].peers

RowCount(u) == Cardinality(RowsWithUrl(store, u))

(* C2: if two chunks of one job both contain a record with the same        *)
(* sourceURL, then once both have been merged the store holds exactly one  *)
(* row for that sourceURL (one of the batches that held it committed), and *)
(* never more than one, whatever the order in which the fetches complete.  *)
C2_OneRowForSharedUrl ==
    \A i, j \in 1..Len(futures) :
        (i # j /\ Handled(i) /\ Handled(j)) =>
            \A u \in PageUrls(i) \cap PageUrls(j) :
                /\ RowCount(u) <= 1
                /\ (Wrote(i, u) \/ Wrote(j, u)) => RowCount(u) = 1

\* two chunks fetched at the same time both returned and both wrote the same URL
C2_Witness ==
    \E i, j \in 1..Len(futures) :
        /\ i # j /\ Handled(i) /\ Handled(j) /\ Concurrent(i, j)
        /\ \E u \in ResultUrls(i) \cap ResultUrls(j) :
              Wrote(i, u) /\ Wrote(j, u) /\ RowCount(u) = 1

(* C3: in every reachable state, also with a stale key set or another      *)
(* writer of the table, no two rows of the store have the same sourceURL.  *)
C3_UniqueSourceUrl ==
    \A k, m \in 1..Len(store) :
        k # m => store[k].source_url # store[m].source_url

\* a batch committed although another writer had inserted one of its URLs
\* after the key set was loaded
C3_Witness ==
    /\ external > 0
    /\ last.chunk # 0
    /\ last.failAt > Len(last.datasets)
    /\ \E k \in 1..Len(last.datasets) :
          /\ HasUrl(last.before, last.datasets[k].source_url)
          /\ last.datasets[k].source_url \notin futures[last.chunk].snap
    /\ store = last.after

\* every page this run has fetched holds only records the previous run left in the table
PagesAlreadyStored ==
    \A i \in 1..Len(futures) :
        FetchedPage(i) => PageUrls(i) \subseteq SelectEuropaUrls(prev.store)

(* C4: a second run of the ingestion, with the key set freshly loaded from *)
(* a store that contains the first run's output and with the remote        *)
(* returning pages of that output, inserts zero rows into the store and    *)
(* reports zero new records.                                               *)
C4_SecondRunAddsNothing ==
    (run > 1 /\ loaded /\ PagesAlreadyStored) =>
        /\ rows_added = 0
        /\ total_saved = 0
        /\ ReportPrinted => report = 0

\* a second run has ended after fetching a page of records the first run had written
C4_Witness ==
    /\ run > 1
    /\ loaded
    /\ PagesAlreadyStored
    /\ pc = "done"
    /\ report = 0
    /\ rows_added = 0
    /\ \E i \in 1..Len(futures) : FetchedPage(i) /\ PageUrls(i) # {}

(* C5: writeBatch returns the count of rows actually inserted: a record    *)
(* whose sourceURL is already in the store, or earlier in the same batch,  *)
(* is skipped without error and does not count toward the returned total.  *)
C5_ReturnsRowsInserted ==
    (last.chunk # 0 /\ last.failAt > Len(last.datasets)) =>
        last.ret = Len(last.after) - Len(last.before)

\* the records of the batch that were not in the table before the call
NonConflicting(call) ==
    { call.datasets[k].source_url : k \in 1..Len(call.datasets) } \ UrlsOf(call.before)

(* C6: a batch write is atomic: after writeBatch either every              *)
(* non-conflicting record of the batch is in the store and nothing else    *)
(* was added, or, when a failure occurs at any point in the batch, the     *)
(* store is exactly as it was before the call.                             *)
C6_BatchAtomic ==
    last.chunk # 0 =>
        IF last.failAt <= Len(last.datasets)
        THEN last.after = last.before
        ELSE /\ SubSeq(last.after, 1, Len(last.before)) = last.before
             /\ UrlsOf(last.after) = UrlsOf(last.before) \cup NonConflicting(last)

\* the second or a later INSERT of a batch failed after an earlier one had
\* added a row inside the transaction
C6_Witness ==
    /\ last.chunk # 0
    /\ last.failAt >= 2
    /\ last.failAt <= Len(last.datasets)
    /\ ~HasUrl(last.before, last.datasets[1].source_url)
    /\ last.after = last.before
    /\ store = last.before

\* the fetch of chunk i failed: a timeout, an exception or a status other than 200
FetchFailed(i) == futures[i].outcome \in { "http", "exc" }

\* the chunks the drain loop counted in chunk_count (lines 236-240)
ChunksSucceeded == { i \in 1..Len(futures) : futures[i].branch = "saved" }

\* the chunks the drain loop reported without saving (lines 249-253)
ChunksFailed == { i \in 1..Len(futures) : futures[i].branch \in { "empty", "exception" } }

(* C7: if the fetch of the chunk at offset O fails, every chunk at another *)
(* offset whose fetch succeeds still has its records merged and written;   *)
(* at job end chunksFailed includes O and chunksSucceeded includes the     *)
(* others.                                                                 *)
C7_FailureIsLocal ==
    ReportPrinted =>
        \A o \in 1..Len(futures) :
            FetchFailed(o) =>
                /\ o \in ChunksFailed
                /\ \A j \in 1..Len(futures) :
                      (j # o /\ FetchedPage(j)) =>
                          /\ j \in ChunksSucceeded
                          /\ futures[j].write = "committed" => PageUrls(j) \subseteq UrlsOf(store)

(* C8: a job ends fatally only if Initializing could not establish a store *)
(* connection or could not load the initial key set; no failure of a later *)
(* step ends the job fatally.                                              *)
C8_FatalOnlyInInitializing ==
    pc = "fatal" => fatal \in { "count", "load" }

(* C9: a job never dispatches a chunk unless the initial key set was       *)
(* loaded from the store: if that load fails, the job stops in             *)
(* Initializing instead of proceeding with an empty key set.               *)
C9_NoDispatchWithoutKeySet ==
    /\ Len(futures) > 0 => loaded
    /\ pc \notin { "count", "load", "fatal" } => loaded

(* C10: once Initializing has succeeded, every job eventually prints its   *)
(* final total, and it does so only after every partitioned chunk has been *)
(* submitted and its result handled, whatever subset of chunks fail.       *)
C10_ReportAfterAllChunks ==
    /\ (pc = "input") ~> ReportPrinted
    /\ [](ReportPrinted => (Len(futures) = Len(chunks) /\ AllHandled))

\* the total was printed for a job in which one chunk failed and another saved
C10_Witness ==
    /\ ReportPrinted
    /\ \E o, j \in 1..Len(futures) :
          /\ futures[o].outcome \in { "http", "exc", "format", "broken" }
          /\ futures[j].branch = "saved"

-----------------------------------------------------------------------------
(* The normaliser's rejects *)

\* line 100: the identifier left after trimming is empty or too short
Rejected(e) == strip(e) = <<>> \/ Len(strip(e)) < MinIdLen

\* line 104: the sourceURL a record built from entry e would carry
DerivedUrl(e) == UrlPrefix \o strip(e)

\* the entries of a page (line 164)
Entries(data) == { data[k] : k \in 1..Len(data) }

(* C11: a raw entry whose identifier, after trimming, is empty or shorter  *)
(* than 3 characters is rejected by the normaliser (it returns the empty   *)
(* dict), and no record derived from such an entry is ever in a worker's   *)
(* result or in the store.                                                 *)
C11_RejectedNeverStored ==
    \A e \in RawEntries :
        Rejected(e) =>
            /\ extract_europa_metadata_from_string(e) = EmptyDict
            /\ \A i \in 1..Len(futures) : DerivedUrl(e) \notin ResultUrls(i)
            /\ ~HasUrl(store, DerivedUrl(e))

\* a page with a rejected entry and an accepted one was fetched, and the
\* batch made from it committed
C11_Witness ==
    \E i \in 1..Len(futures) :
        /\ Handled(i)
        /\ futures[i].write = "committed"
        /\ \E e \in Entries(futures[i].data) : Rejected(e)
        /\ futures[i].result # <<>>
        /\ ResultUrls(i) \subseteq UrlsOf(store)

(* C12: the store is append-only under the pipeline: every row that is in  *)
(* the store before a step is in it after the step, at the same place and  *)
(* with the same field values; no step updates or deletes a row.           *)
C12_AppendOnly ==
    [][/\ Len(store') >= Len(store)
       /\ SubSeq(store', 1, Len(store)) = store]_vars

\* a batch committed into a table that already held rows, one of them under
\* a key of the batch, and added a row
C12_Witness ==
    /\ last.chunk # 0
    /\ last.failAt > Len(last.datasets)
    /\ \E k \in 1..Len(last.datasets) : HasUrl(last.before, last.datasets[k].source_url)
    /\ Len(last.after) > Len(last.before)
    /\ store = last.after

-----------------------------------------------------------------------------
(* The example job *)

RECURSIVE SumUpTo(_, _)
SumUpTo(f, n) == IF n = 0 THEN 0 ELSE f[n] + SumUpTo(f, n - 1)

\* line 240, summed over the chunks it is printed for: "Downloaded {len(datasets)}"
RecordsDownloaded ==
    SumUpTo([i \in 1..Len(futures) |->
                IF futures[i].branch = "saved" THEN Len(futures[i].result) ELSE 0],
            Len(futures))

\* line 240: what was downloaded and not "saved ... new"
RecordsDuplicate == RecordsDownloaded - total_saved

\* main() has partitioned the example's volume from the example's offset
ExamplePartitioned ==
    /\ pc \in { "submit", "drain", "stats", "done", "fatal" }
    /\ fatal # "count"
    /\ batch_size = ExampleJob.volume
    /\ chunk_size = ExampleJob.page
    /\ start_offset = ExampleJob.resume

\* every chunk got its page from the remote and every batch write went through
ExampleAllFetchedAndWritten ==
    /\ Len(futures) = Len(chunks)
    /\ \A i \in 1..Len(futures) :
          Handled(i) /\ FetchedPage(i) /\ futures[i].write # "failed"

(* C13: with total volume 10, page size 5 and resume offset 100 the        *)
(* partitioner yields exactly the chunks (100,5) and (105,5); if the       *)
(* remote returns 5 valid, unseen, distinct identifiers per page, all 10   *)
(* records pass the duplicate filter, the batch writer reports 10 inserted *)
(* in total, and the final report has 10 new records and 0 duplicates.     *)
C13_Example ==
    ExamplePartitioned =>
        /\ chunks = << <<100, 5>>, <<105, 5>> >>
        /\ (ReportPrinted /\ ExampleAllFetchedAndWritten) =>
              /\ \A i \in 1..Len(futures) :
                    /\ Len(futures[i].result) = 5
                    /\ ResultUrls(i) = PageUrls(i)
                    /\ futures[i].ret = 5
              /\ total_saved = 10
              /\ rows_added = 10
              /\ report = 10
              /\ RecordsDuplicate = 0

\* the example job has ended: two pages fetched and written, 110 rows in the table
C13_Witness ==
    /\ ExamplePartitioned
    /\ ExampleAllFetchedAndWritten
    /\ pc = "done"
    /\ report = 10
    /\ Len(store) = 110

-----------------------------------------------------------------------------
(* Failures inside the fetcher *)

\* lines 146-148, 153-155, 174-176: a status other than 200, JSON that is not
\* a list, a timeout or any other exception of the request
CaughtFailures == { "http", "format", "exc" }

(* C14: the chunk fetcher never raises across the worker boundary: a       *)
(* timeout, any exception, a non-success status, or a response that is not *)
(* a list each give an empty sequence for that chunk (the drain loop takes *)
(* its "no datasets" branch, not its except branch), and the step leaves   *)
(* main() in the drain loop and every other chunk as it was.               *)
C14_FetcherNeverRaises ==
    /\ [](\A i \in 1..Len(futures) :
            futures[i].outcome \in CaughtFailures =>
                /\ futures[i].st \in { "finished", "handled" }
                /\ futures[i].result = <<>>
                /\ ~FutureRaises(futures[i])
                /\ Handled(i) => futures[i].branch = "empty")
    /\ [][\A i \in 1..Len(futures) :
            (futures[i].outcome = "none" /\ futures'[i].outcome \in CaughtFailures) =>
                /\ pc' = pc
                /\ \A j \in 1..Len(futures) : j # i => futures'[j] = futures[j]]_vars

\* a request raised or timed out, main() took the "no datasets" branch for
\* that chunk, and another chunk's batch was written
C14_Witness ==
    \E o, j \in 1..Len(futures) :
        /\ futures[o].outcome = "exc"
        /\ futures[o].branch = "empty"
        /\ futures[j].branch = "saved"
        /\ futures[j].write = "committed"
        /\ ResultUrls(j) \subseteq UrlsOf(store)

-----------------------------------------------------------------------------
(* A batch write that fails *)

\* the chunks whose save_datasets_batch call went into its except branch (lines 88-90)
WriteFailed == { i \in 1..Len(futures) : futures[i].write = "failed" }

(* C15: when the batch write of a chunk fails after its fetch succeeded,   *)
(* main() records the chunk as failed: it is not among the chunks counted  *)
(* as completed (chunk_count), it is among the chunks reported as not      *)
(* saved, and the other chunks are still handled.                          *)
C15_WriteFailureRecorded ==
    /\ \A i \in WriteFailed :
          /\ i \notin ChunksSucceeded
          /\ i \in ChunksFailed
    /\ chunk_count = Cardinality(ChunksSucceeded \ WriteFailed)
    /\ ReportPrinted => AllHandled

-----------------------------------------------------------------------------
(* The job run again after a failed write *)

\* the offsets the previous run was asked to cover (lines 205-218)
PrevRange == prev.start_offset..(prev.start_offset + prev.batch_size - 1)

\* the sourceURL of the catalog's record at offset k
CatalogUrl(k) == DerivedUrl(CatalogEntry(k))

\* the records of the previous run's range that run left out of the table
MissingAfterPrev ==
    { k \in PrevRange : ~Rejected(CatalogEntry(k)) /\ ~HasUrl(prev.store, CatalogUrl(k)) }

(* the job has been run again over the same offset range after a run in   *)
(* which a batch write failed; the key set was loaded, every page was      *)
(* fetched and no write failed this time                                   *)
RetryDone ==
    /\ run > 1
    /\ prev.write_failed
    /\ start_offset = prev.start_offset
    /\ batch_size = prev.batch_size
    /\ loaded
    /\ pc = "done"
    /\ ExampleAllFetchedAndWritten

-----------------------------------------------------------------------------
(* The batch writer on an empty list *)

(* C17: save_datasets_batch on an empty sequence is a no-op that returns   *)
(* 0: it opens no connection and no transaction and leaves the store as it *)
(* was, whatever the state of the database.                                *)
C17_EmptyBatchIsNoOp ==
    (pc = "called" /\ last.datasets = <<>>) =>
        /\ last.ret = 0
        /\ ~last.connects
        /\ last.after = last.before
        /\ store = last.before
        /\ rows_added = 0

\* the call was made with an empty list while the table held rows and the
\* database could not be reached
C17_Witness ==
    /\ pc = "called"
    /\ last.datasets = <<>>
    /\ last.failAt = 0
    /\ last.before # <<>>
    /\ store = last.before

-----------------------------------------------------------------------------
(* The duplicate filter *)

\* worker i has returned the records it kept (line 172)
Returned(i) == futures[i].st \in { "finished", "handled" } /\ FetchedPage(i)

(* C18: the duplicate filter keeps a candidate only if its sourceURL is    *)
(* absent from the key set, and the sourceURL of a kept candidate is in    *)
(* the key set from the moment it is kept, before its batch is written, so *)
(* that two chunks of one job carrying the same sourceURL never both pass  *)
(* the filter.                                                             *)
C18_KeptUrlMarkedAtOnce ==
    \A i \in 1..Len(futures) :
        Returned(i) =>
            /\ ResultUrls(i) \cap futures[i].snap = {}
            /\ ResultUrls(i) \subseteq existing_urls
            /\ \A j \in 1..Len(futures) :
                  (j # i /\ Returned(j)) => ResultUrls(i) \cap ResultUrls(j) = {}

\* the places of page data whose entry the normaliser accepts (lines 165-166)
Accepted(data) == { k \in 1..Len(data) : ~Rejected(data[k]) }

(* C19: the chunk fetcher does not filter for duplicates itself: the       *)
(* sequence a worker returns holds every entry of its page that the        *)
(* normaliser accepted, whether or not its sourceURL is already known.     *)
C19_FetcherReturnsAllAccepted ==
    \A i \in 1..Len(futures) :
        Returned(i) =>
            /\ Len(futures[i].result) = Cardinality(Accepted(futures[i].data))
            /\ ResultUrls(i) = PageUrls(i)

-----------------------------------------------------------------------------
(* Who changes main()'s key set and counters *)

\* the step changes existing_urls, total_saved or chunk_count
MergeStateChanges ==
    \/ existing_urls' # existing_urls
    \/ total_saved' # total_saved
    \/ chunk_count' # chunk_count

\* the step is one iteration of the drain loop that saves chunk i (lines 235-244)
MergesChunk(i) ==
    /\ pc = "drain" /\ pc' = "drain"
    /\ i \in 1..Len(futures)
    /\ futures[i].st = "finished"
    /\ futures'[i].st = "handled"
    /\ \A j \in 1..Len(futures) : j # i => futures'[j] = futures[j]

\* the step is a statement of main() outside the drain loop (lines 193, 221-222)
MainMovesOn == pc' # pc

\* line 238, added up
SavedSoFar ==
    SumUpTo([i \in 1..Len(futures) |-> futures[i].ret], Len(futures))

(* C20: the key set and the counters are changed only by main()'s single   *)
(* thread: no step of a fetch worker or of the executor changes            *)
(* existing_urls, total_saved or chunk_count; every change is made by a    *)
(* statement of main() or by the merge of exactly one chunk; and the       *)
(* merges of different chunks do not overlap, so that no update is lost.   *)
C20_OnlyMainMutates ==
    /\ [][MergeStateChanges =>
            (MainMovesOn \/ \E i \in 1..Len(futures) : MergesChunk(i))]_vars
    /\ [][Cardinality({ i \in 1..Len(futures) :
                          i \in 1..Len(futures')
                          /\ futures[i].st # "handled"
                          /\ futures'[i].st = "handled" }) <= 1]_vars
    /\ [](pc = "drain" =>
            /\ total_saved = SavedSoFar
            /\ chunk_count = Cardinality(ChunksSucceeded)
            /\ \A i \in ChunksSucceeded : ResultUrls(i) \subseteq existing_urls)

\* two chunks were fetched at the same time and both were merged: both are
\* counted and the URLs of both are in the key set
C20_Witness ==
    /\ pc = "drain"
    /\ \E i, j \in ChunksSucceeded :
          /\ i # j
          /\ Concurrent(i, j)
          /\ futures[i].ret > 0 /\ futures[j].ret > 0
          /\ total_saved = futures[i].ret + futures[j].ret
          /\ ResultUrls(i) # ResultUrls(j)
          /\ (ResultUrls(i) \cup ResultUrls(j)) \subseteq existing_urls
    /\ chunk_count = 2

-----------------------------------------------------------------------------
(* The phases of a job *)

(* Initializing: lines 182-202; Partitioning: 205-218; Dispatching:        *)
(* 221-229; Draining: 232-256; Reporting: 258-272; then main() returns.    *)
PhaseOf(p) ==
    CASE p \in { "count", "load", "input" } -> 1
      [] p = "partition" -> 2
      [] p = "submit" -> 3
      [] p = "drain" -> 4
      [] p = "stats" -> 5
      [] p = "done" -> 6
      [] p = "fatal" -> 7

\* a batch write has been issued (line 237)
WriteIssued == \E i \in 1..Len(futures) : futures[i].branch = "saved"

(* C21: every job passes through its phases in the order Initializing,     *)
(* Partitioning, Dispatching, Draining, Reporting, Done, without skipping  *)
(* one or returning to an earlier one (an uncaught exception ends it where *)
(* it is); no chunk exists before the count and the key set statements     *)
(* have run, no write is issued before all chunks have been submitted, and *)
(* the total is printed after the last merge.                              *)
C21_PhasesInOrder ==
    /\ [][\/ pc' = "fatal"
          \/ PhaseOf(pc') = PhaseOf(pc)
          \/ PhaseOf(pc') = PhaseOf(pc) + 1]_vars
    /\ [](chunks # <<>> => PhaseOf(pc) >= 3)
    /\ [](PhaseOf(pc) <= 2 => futures = <<>> /\ ~WriteIssued)
    /\ [](WriteIssued => (PhaseOf(pc) >= 4 /\ Len(futures) = Len(chunks)))
    /\ [](ReportPrinted => (PhaseOf(pc) >= 5 /\ AllHandled))
    /\ [][ReportPrinted =>
            (futures' = futures /\ total_saved' = total_saved /\ report' = report)]_vars

\* a job with two chunks, both written, has gone through every phase
C21_Witness ==
    /\ pc = "done"
    /\ Len(chunks) = 2
    /\ \A i \in 1..Len(futures) : futures[i].branch = "saved"
    /\ ReportPrinted

-----------------------------------------------------------------------------
(* The worker pool *)

(* C22: all partitioned chunks are submitted to a worker pool of           *)
(* configurable size N (num_workers), and in every reachable state at most *)
(* N chunk fetches are executing at the same time.                         *)
C22_AtMostNFetches ==
    /\ PhaseOf(pc) \in 4..6 => Len(futures) = Len(chunks)
    /\ Cardinality(Running) <= num_workers
    /\ \A i \in 1..Len(futures) : Cardinality(futures[i].peers) < num_workers

\* a pool of one worker: one chunk is being fetched while another waits in
\* the call queue
C22_Witness ==
    /\ num_workers = 1
    /\ Len(chunks) = 2
    /\ \E i, j \in 1..Len(futures) :
          futures[i].st = "running" /\ futures[j].st = "queued"

-----------------------------------------------------------------------------
(* The table at the end of a job *)

\* the table when this run of main() started
StoreAtStart == IF run > 1 THEN prev.store ELSE <<>>

RowSet(rows) == { rows[k] : k \in 1..Len(rows) }

\* the records the normaliser makes of the page chunk i fetched (lines 164-166)
PageRows(i) ==
    { extract_europa_metadata_from_string(e) :
        e \in { x \in Entries(futures[i].data) : ~Rejected(x) } }

\* every chunk got the remote's answer and no batch write failed
AllAnsweredAndWritten ==
    \A i \in 1..Len(futures) :
        futures[i].outcome \in FetchOutcomes /\ futures[i].write # "failed"

(* C23: for a fixed set of chunks and fixed remote responses, the contents *)
(* of the store at job end are the same for every order in which the       *)
(* fetches complete and are merged: they are the rows the table held at    *)
(* the start and one row for every record of every page fetched, whatever  *)
(* snapshot each worker filtered against and whichever chunk was merged    *)
(* first.                                                                  *)
C23_FinalStoreOrderIndependent ==
    (pc = "done" /\ AllAnsweredAndWritten) =>
        /\ RowSet(store) =
              RowSet(StoreAtStart)
                \cup UNION { PageRows(i) : i \in { j \in 1..Len(futures) : FetchedPage(j) } }
        /\ \A k, m \in 1..Len(store) :
              k # m => store[k].source_url # store[m].source_url

\* two chunks with different pages that share a record; the chunk submitted
\* first was merged last
C23_Witness ==
    /\ pc = "done"
    /\ AllAnsweredAndWritten
    /\ Len(futures) = 2
    /\ FetchedPage(1) /\ FetchedPage(2)
    /\ PageRows(1) # PageRows(2)
    /\ PageRows(1) \cap PageRows(2) # {}
    /\ futures[2].branch = "saved"
    /\ last.chunk = 1

-----------------------------------------------------------------------------
(* The life of a chunk *)

(* What can happen to a work item: pickled into the call queue, taken by a *)
(* worker, returned, yielded by as_completed and handled; or given         *)
(* BrokenProcessPool before it has returned (lines 224-256).               *)
FutureMoves ==
    { <<"pending", "queued">>, <<"queued", "running">>, <<"running", "finished">>,
      <<"finished", "handled">>, <<"pending", "finished">>, <<"queued", "finished">> }

\* chunk i was run by a worker to its return (the future has a result)
FetchedOnce(i) == futures[i].outcome \in FetchOutcomes

TransactionOf(i) ==
    /\ futures[i].st = "finished"
    /\ futures'[i].st = "handled"
    /\ futures'[i].branch = "saved"
    /\ \A j \in 1..Len(futures) : j # i => futures'[j] = futures[j]
    /\ last'.chunk = i
    /\ last'.datasets = futures[i].result
    /\ last'.before = store
    /\ last'.after = store'
    /\ RowSet(store') \ RowSet(store) \subseteq RowSet(futures[i].result)
    /\ futures'[i].write = "failed" => store' = store

\* the chunks whose batch write was committed
Committed == { i \in 1..Len(futures) : futures[i].write = "committed" }

(* C25: writes are issued as one batch-write transaction per merged chunk: *)
(* a transaction never contains records of two different chunks, at most   *)
(* one write transaction of the job is open at any time, and a failed      *)
(* transaction of one chunk leaves the rows committed for other chunks     *)
(* unchanged.                                                              *)
C25_OneTransactionPerChunk ==
    /\ [][(last' # last \/ (store' # store /\ external' = external)) =>
              \E i \in 1..Len(futures) : TransactionOf(i)]_vars
    /\ [](\A i \in 1..Len(futures) :
              futures[i].branch = "saved" <=> futures[i].write \in { "committed", "failed" })
    /\ [](\A i \in Committed : ResultUrls(i) \subseteq UrlsOf(store))

\* the write of one chunk failed after an INSERT inside its transaction, and
\* the rows committed for the other chunk are in the table
C25_Witness ==
    /\ last.chunk # 0
    /\ last.failAt >= 2
    /\ last.failAt <= Len(last.datasets)
    /\ futures[last.chunk].write = "failed"
    /\ \E j \in Committed :
          /\ j # last.chunk
          /\ ResultUrls(j) # {}
          /\ ResultUrls(j) # ResultUrls(last.chunk)
          /\ ResultUrls(j) \subseteq UrlsOf(store)

\* the fixed URL template of line 104
UrlTemplate(id) == UrlPrefix \o id

\* the k-th call of the normaliser has returned a record
Normalized(k) == pc = "normalized" /\ Truthy(futures[1].result[k])

-----------------------------------------------------------------------------
(* What the job reports and what it remembers, against the table *)

\* the rows the table has gained since main() started
RowsGained == Len(store) - Len(StoreAtStart)

(* C27: with no external writer, the total of new records reported at job  *)
(* end (total_saved) equals the number of rows the store gained between    *)
(* job start and job end, for every combination of duplicate identifiers   *)
(* within a page, duplicate identifiers across chunks, and failed writes.  *)
C27_ReportedTotalIsRowsGained ==
    ReportPrinted => (report = total_saved /\ report = RowsGained)

(* C28: with no external deletions, in every reachable state of a job each *)
(* sourceURL in the orchestrator's in-memory key set is the key of a row   *)
(* in the store: a sourceURL is never marked as known when its record was  *)
(* not persisted, in particular not after a failed batch write.            *)
C28_KeySetWithinStore ==
    existing_urls \subseteq UrlsOf(store)

(* C29: the sequence of records a fetch worker returns for one chunk never *)
(* contains two records with the same sourceURL, and never contains a      *)
(* record whose sourceURL is in the key set handed to that worker, even    *)
(* when the remote page repeats an identifier.                             *)
C29_ResultHasNoRepeatedOrKnownUrl ==
    \A i \in 1..Len(futures) :
        Returned(i) =>
            /\ \A k, m \in 1..Len(futures[i].result) :
                  k # m => futures[i].result[k].source_url # futures[i].result[m].source_url
            /\ ResultUrls(i) \cap futures[i].snap = {}

(* C30: in update_database.insert_datasets every input record is counted   *)
(* exactly once as inserted, duplicate or error, and the returned inserted *)
(* count equals the number of rows the call durably added to the store,    *)
(* including when one record's insert raises in the middle of the batch    *)
(* and when the batch repeats a sourceURL.                                 *)
C30_InsertedIsRowsAdded ==
    pc = "called" =>
        /\ last.ret + last.duplicates + last.errors = Len(last.datasets)
        /\ last.ret = Len(store) - Len(last.before)


====
